---- MODULE Spec2Model ----
(***************************************************************************)
(* Model of the peer-center coordinator of one node                        *)
(* (easytier/src/peer_center/instance.rs): the center-peer election, the   *)
(* periodic-job runner with its serialization lock, the global-map fetch   *)
(* job, the local-peers report job and the route-cost calculator; and of   *)
(* the node's virtual NIC (easytier/src/instance/virtual_nic.rs): the      *)
(* packet-info framer, the VirtualNic facade with its namespace guard, and *)
(* the read stream and write sink that share the tunnel device.            *)
(*                                                                         *)
(* Time is an integer count of milliseconds since the instance was built.  *)
(* PeerId::default() is 0 and stands for "no peer"; real peers have the    *)
(* ids of PeerIds.                                                          *)
(***************************************************************************)
EXTENDS Integers, Sequences, FiniteSets

\* ---------------------------------------------------------------- bounds
\* Longest route list the election is checked on.
MaxRoutes == 3
\* Number of clock advances in one behaviour.
MaxTicks == 2
\* The report_peers requests of a node are counted up to this number.
MaxReports == 2
\* Most bytes in front of a payload, and longest payload, of a packet framed.
MaxOffset == 5
MaxPayload == 2
\* Calls to the kernel device and the configurer in one behaviour.
MaxCalls == 5
\* Packets the read stream yields in one behaviour, and longest read.
MaxPackets == 2
MaxRead == 2

\* ------------------------------------------------------ program constants
DefaultPeerId == 0
DefaultDigest == 0
SleepNoCenterMs == 1000
SleepRpcFailedMs == 3000
SleepFetchErrorMs == 1000
SleepJobDoneMs == 5000
ReportIntervalSecs == 60
InitialAgeMs == 1000
DefaultCost == 80

\* Constants of virtual_nic.rs.
ETH_P_IP == 2048
ETH_P_IPV6 == 34525
PF_INET == 2
PF_INET6 == 30
PacketInfoLen == 4

\* ----------------------------------------------------------- model values
PeerIds == {3, 7, 9}
Jobs == {"fetch", "report"}
None == [some |-> FALSE]
Some(v) == [some |-> TRUE, val |-> v]
NoLock == "free"
NoRpc == [method |-> "none"]
NoReply == [kind |-> "none_yet"]
NoCalc == [made |-> FALSE]
RpcError == [ok |-> FALSE]
Ok(ms) == [ok |-> TRUE, ms |-> ms]
NoRet == [ok |-> TRUE, ms |-> -1]

\* All route lists of at most MaxRoutes entries.
RouteLists == UNION {[1..n -> PeerIds] : n \in 0..MaxRoutes}
\* The route tables node 7 sees as the mesh {3, 7, 9} forms and breaks.
RouteTables == {<<>>, <<3>>, <<9>>, <<9, 3>>}

\* GlobalPeerMap values: PeerId -> (direct peer -> latency_ms).
EmptyMap == [p \in {} |-> [q \in {} |-> 0]]
MapAB == [p \in {3, 7} |-> IF p = 3 THEN [q \in {7} |-> 10] ELSE [q \in {3} |-> 10]]
MapABC ==
    [p \in {3, 7, 9} |->
        IF p = 3 THEN [q \in {7} |-> 10]
        ELSE IF p = 7 THEN [q \in {3, 9} |-> IF q = 3 THEN 10 ELSE 20]
        ELSE [q \in {7} |-> 20]]
MapList == <<EmptyMap, MapAB, MapABC>>
KnownMaps == {MapList[i] : i \in 1..Len(MapList)}

\* The digest the center server publishes with a map: injective on the maps,
\* and the default digest for the map of a server that holds no report yet.
DigestOf(m) == (CHOOSE i \in 1..Len(MapList) : MapList[i] = m) - 1

\* Clock advances: the job sleep and the report interval.
TickSteps == {SleepJobDoneMs, ReportIntervalSecs * 1000}

\* ------------------------------------------------ virtual NIC: values
\* (easytier/src/instance/virtual_nic.rs)
Halves == {"stream", "sink"}
SinkOps == {"poll_write", "poll_flush", "poll_shutdown", "poll_write_vectored"}
TargetOs == {"linux", "macos", "windows"}
DevNames == {"tun0", "tun1"}
QueueNums == {1, 2}
Ipv4Addr == "10.144.111.1"
IPv4 == [proto |-> "IPv4"]
IPv6 == [proto |-> "IPv6"]
Other(p) == [proto |-> "Other", nibble |-> p]
IoOk(v) == [kind |-> "ok", val |-> v]
IoErr == [kind |-> "err"]
Panic == [kind |-> "panic"]
NoBytes == [kind |-> "none"]
NoPacket == [inner |-> <<>>, payload_offset |-> 0]
NicNone == [kind |-> "none"]
NicOk == [kind |-> "ok"]
NicErr(from) == [kind |-> "err", from |-> from]
NicPanic(at) == [kind |-> "panic", at |-> at]
NoOp == [name |-> "new", arg |-> None]
Op(name, arg) == [name |-> name, arg |-> arg]
\* Bytes in front of a payload, and bytes of a payload: 0x45 and 0x60 open an
\* IPv4 and an IPv6 packet, 0x0f neither.
FrontBytes == {0, 69, 96}
PayloadBytes == {69, 96, 15}

VARIABLES
    my_peer_id,     \* peer_mgr.my_peer_id()
    routes,         \* peer_mgr.list_routes(): the peer_id of each route
    direct_peers,   \* list_peers(): ids of the direct peers
    center_data,    \* the global peer map the center server holds
    now,            \* the clock, ms
    ticks,          \* clock advances so far
    pc,             \* each periodic job's position
    center_peer,    \* PeridicJobCtx.center_peer of each job
    elected,        \* the runner's local center_peer of the iteration
    lock,           \* PeerCenterBase.lock: its holder
    ret,            \* the job body's result in the runner
    wake,           \* deadline of the job's tokio sleep
    rpc_out,        \* the request each job has in flight
    reply,          \* the answer the job body got in this iteration
    global_peer_map,
    global_peer_map_digest,
    global_peer_map_update_time,
    last_report_peers,
    last_center_peer,
    last_report_time,
    peer_list,      \* the report body's local peer_list
    reports_sent,   \* report_peers requests sent so far, counted up to MaxReports
    calc,           \* the RouteCostCalculatorImpl, once made
    calc_phase,     \* the calculator's last call
    target_os,      \* cfg!(target_os) of the build
    zc_packet,      \* the ZCPacket given to into_bytes
    has_packet_info,\* TunZCPacketToBytes.has_packet_info
    bytes_out,      \* what into_bytes returned
    queue_num,      \* VirtualNic.queue_num
    ifname,         \* VirtualNic.ifname
    ns_guard,       \* a guard of global_ctx.net_ns is held
    dev,            \* create_dev's local dev: the name of the device made
    nic_pc,         \* position of the VirtualNic call in progress
    nic_op,         \* the VirtualNic operation last called
    nic_ret,        \* what that operation returned
    calls,          \* calls the kernel device and the configurer received
    bilock,         \* BiLock<AsyncDevice>: the half that holds the guard
    tun_pc,         \* position of each half of the tunnel
    cur_packet,     \* TunStream.cur_packet
    sink_op,        \* the TunAsyncWrite operation in progress
    stream_items,   \* the packets TunStream has yielded: the reads each buffer took
    dev_reads       \* what the device answered to the stream's reads, Pending left out

envVars == <<my_peer_id, routes, direct_peers, center_data>>
clockVars == <<now, ticks>>
runnerVars == <<pc, center_peer, elected, lock, ret, wake, rpc_out, reply>>
mapVars == <<global_peer_map, global_peer_map_digest, global_peer_map_update_time>>
reportVars ==
    <<last_report_peers, last_center_peer, last_report_time, peer_list, reports_sent>>
calcVars == <<calc, calc_phase>>
centerVars == <<envVars, clockVars, runnerVars, mapVars, reportVars, calcVars>>
frameVars == <<target_os, zc_packet, has_packet_info, bytes_out>>
nicVars == <<queue_num, ifname, ns_guard, dev, nic_pc, nic_op, nic_ret, calls>>
tunVars == <<bilock, tun_pc, cur_packet, sink_op, stream_items, dev_reads>>
deviceVars == <<frameVars, nicVars, tunVars>>
vars == <<centerVars, deviceVars>>

\* ---------------------------------------------------------------- election
RECURSIVE select_loop(_, _, _)
select_loop(peers, i, min_peer) ==
    IF i > Len(peers) THEN min_peer
    ELSE select_loop(peers, i + 1, IF peers[i] < min_peer THEN peers[i] ELSE min_peer)

\* Mutant: the running minimum starts at the first route, not at the local id.
select_center_peer_skip_self(my_id, peers) ==
    IF Len(peers) = 0 THEN None ELSE Some(select_loop(peers, 1, peers[1]))

select_center_peer(my_id, peers) ==
    IF Len(peers) = 0 THEN None ELSE Some(select_loop(peers, 1, my_id))

\* ------------------------------------------------------------------- Init
\* VirtualNic::new: one queue, no interface name, and no tunnel yet.
NewVirtualNic ==
    /\ zc_packet = NoPacket
    /\ has_packet_info = FALSE
    /\ bytes_out = NoBytes
    /\ queue_num = 1
    /\ ifname = None
    /\ ns_guard = FALSE
    /\ dev = None
    /\ nic_pc = "idle"
    /\ nic_op = NoOp
    /\ nic_ret = NicNone
    /\ calls = <<>>
    /\ bilock = NoLock
    /\ tun_pc = [h \in Halves |-> "absent"]
    /\ cur_packet = None
    /\ sink_op = "none"
    /\ stream_items = <<>>
    /\ dev_reads = <<>>

\* The NIC of a node whose peer center is looked at: not yet created.
InitDevice ==
    /\ target_os = "linux"
    /\ NewVirtualNic

InitJobs ==
    /\ now = 0
    /\ ticks = 0
    /\ pc = [j \in Jobs |-> "elect"]
    /\ center_peer = [j \in Jobs |-> DefaultPeerId]
    /\ elected = [j \in Jobs |-> DefaultPeerId]
    /\ lock = NoLock
    /\ ret = [j \in Jobs |-> NoRet]
    /\ wake = [j \in Jobs |-> 0]
    /\ rpc_out = [j \in Jobs |-> NoRpc]
    /\ reply = [j \in Jobs |-> NoReply]
    /\ global_peer_map = EmptyMap
    /\ global_peer_map_digest = DefaultDigest
    /\ global_peer_map_update_time = 0
    /\ last_report_peers = {}
    /\ last_center_peer = DefaultPeerId
    /\ last_report_time = 0
    /\ peer_list = {}
    /\ reports_sent = 0
    /\ calc = NoCalc
    /\ calc_phase = "none"

Init ==
    /\ my_peer_id = 7
    /\ routes \in RouteTables
    /\ direct_peers = {}
    /\ center_data \in KnownMaps
    /\ InitJobs
    /\ InitDevice

\* The election on its own: any local id, any route list.
InitSelect ==
    /\ my_peer_id \in PeerIds
    /\ routes \in RouteLists
    /\ direct_peers = {}
    /\ center_data = EmptyMap
    /\ InitJobs
    /\ InitDevice

\* The peer center at rest, for the specifications of the NIC alone.
InitCenterIdle ==
    /\ my_peer_id = 7
    /\ routes = <<>>
    /\ direct_peers = {}
    /\ center_data = EmptyMap
    /\ InitJobs

\* ----------------------------------------------------------- environment
RouteChange ==
    /\ \E r \in RouteTables : routes' = r /\ r # routes
    /\ UNCHANGED <<my_peer_id, direct_peers, center_data>>
    /\ UNCHANGED <<clockVars, runnerVars, mapVars, reportVars, calcVars, deviceVars>>

Tick ==
    /\ ticks < MaxTicks
    /\ \E d \in TickSteps : now' = now + d
    /\ ticks' = ticks + 1
    /\ UNCHANGED <<envVars, runnerVars, mapVars, reportVars, calcVars, deviceVars>>

\* ----------------------------------------------------------------- runner
\* Mutant: the elected peer is not stored in the job's center_peer slot.
ElectWithoutStore(j) ==
    /\ pc[j] = "elect"
    /\ LET r == select_center_peer(my_peer_id, routes) IN
        IF ~r.some
        THEN /\ pc' = [pc EXCEPT ![j] = "sleep"]
             /\ wake' = [wake EXCEPT ![j] = now + SleepNoCenterMs]
             /\ UNCHANGED elected
        ELSE /\ elected' = [elected EXCEPT ![j] = r.val]
             /\ pc' = [pc EXCEPT ![j] = "lock"]
             /\ UNCHANGED wake
    /\ UNCHANGED <<center_peer, lock, ret, rpc_out, reply>>
    /\ UNCHANGED <<envVars, clockVars, mapVars, reportVars, calcVars, deviceVars>>

\* One pass of the loop head: elect, and either sleep or store the center peer.
Elect(j) ==
    /\ pc[j] = "elect"
    /\ LET r == select_center_peer(my_peer_id, routes) IN
        IF ~r.some
        THEN /\ pc' = [pc EXCEPT ![j] = "sleep"]
             /\ wake' = [wake EXCEPT ![j] = now + SleepNoCenterMs]
             /\ UNCHANGED <<center_peer, elected>>
        ELSE /\ center_peer' = [center_peer EXCEPT ![j] = r.val]
             /\ elected' = [elected EXCEPT ![j] = r.val]
             /\ pc' = [pc EXCEPT ![j] = "lock"]
             /\ UNCHANGED wake
    /\ UNCHANGED <<lock, ret, rpc_out, reply>>
    /\ UNCHANGED <<envVars, clockVars, mapVars, reportVars, calcVars, deviceVars>>

\* Mutant: the guard is handed out while another job holds it.
AcquireLockUnguarded(j) ==
    /\ pc[j] = "lock"
    /\ lock' = j
    /\ pc' = [pc EXCEPT ![j] = "body"]
    /\ UNCHANGED <<center_peer, elected, ret, wake, rpc_out, reply>>
    /\ UNCHANGED <<envVars, clockVars, mapVars, reportVars, calcVars, deviceVars>>

\* lock.lock().await: the guard is taken when no job holds it.
AcquireLock(j) ==
    /\ pc[j] = "lock"
    /\ lock = NoLock
    /\ lock' = j
    /\ pc' = [pc EXCEPT ![j] = "body"]
    /\ UNCHANGED <<center_peer, elected, ret, wake, rpc_out, reply>>
    /\ UNCHANGED <<envVars, clockVars, mapVars, reportVars, calcVars, deviceVars>>

\* The sleep that follows the body's result r: 3 s after a transport error,
\* the returned sleep_time_ms after a result, and none if that is 0.
SleepAfter(r) ==
    IF ~r.ok THEN Some(SleepRpcFailedMs)
    ELSE IF r.ms > 0 THEN Some(r.ms)
    ELSE None

\* Mutant: the guard is dropped only after a result, not after an error.
RunnerAfterKeepsLock(j) ==
    /\ pc[j] = "unlock"
    /\ lock' = IF ret[j].ok THEN NoLock ELSE lock
    /\ IF SleepAfter(ret[j]).some
       THEN /\ pc' = [pc EXCEPT ![j] = "sleep"]
            /\ wake' = [wake EXCEPT ![j] = now + SleepAfter(ret[j]).val]
       ELSE /\ pc' = [pc EXCEPT ![j] = "elect"]
            /\ UNCHANGED wake
    /\ ret' = [ret EXCEPT ![j] = NoRet]
    /\ reply' = [reply EXCEPT ![j] = NoReply]
    /\ UNCHANGED <<center_peer, elected, rpc_out>>
    /\ UNCHANGED <<envVars, clockVars, mapVars, reportVars, calcVars, deviceVars>>

\* drop(_g), then the sleep the body's result asks for; the iteration's locals
\* (ret, the body's answer) end here.
RunnerAfter(j) ==
    /\ pc[j] = "unlock"
    /\ lock' = NoLock
    /\ IF SleepAfter(ret[j]).some
       THEN /\ pc' = [pc EXCEPT ![j] = "sleep"]
            /\ wake' = [wake EXCEPT ![j] = now + SleepAfter(ret[j]).val]
       ELSE /\ pc' = [pc EXCEPT ![j] = "elect"]
            /\ UNCHANGED wake
    /\ ret' = [ret EXCEPT ![j] = NoRet]
    /\ reply' = [reply EXCEPT ![j] = NoReply]
    /\ UNCHANGED <<center_peer, elected, rpc_out>>
    /\ UNCHANGED <<envVars, clockVars, mapVars, reportVars, calcVars, deviceVars>>

\* tokio::time::sleep returns once its deadline has passed, and the deadline
\* is dropped with the Sleep; with timed = FALSE the clock is left out and the
\* timer just fires.
Wake(j, timed) ==
    /\ pc[j] = "sleep"
    /\ timed => now >= wake[j]
    /\ pc' = [pc EXCEPT ![j] = "elect"]
    /\ wake' = [wake EXCEPT ![j] = 0]
    /\ UNCHANGED <<center_peer, elected, lock, ret, rpc_out, reply>>
    /\ UNCHANGED <<envVars, clockVars, mapVars, reportVars, calcVars, deviceVars>>

\* -------------------------------------------------------------- fetch job
Applying == pc["fetch"] \in {"w_map", "w_digest", "w_time"}

\* get_global_peer_map(rpc_ctx, digest.load()) is sent to the elected peer.
FetchSend ==
    /\ pc["fetch"] = "body"
    /\ rpc_out' = [rpc_out EXCEPT !["fetch"] =
            [method |-> "get_global_peer_map", to |-> elected["fetch"],
             arg |-> global_peer_map_digest]]
    /\ pc' = [pc EXCEPT !["fetch"] = "rpc"]
    /\ UNCHANGED <<center_peer, elected, lock, ret, wake, reply>>
    /\ UNCHANGED <<envVars, clockVars, mapVars, reportVars, calcVars, deviceVars>>

\* The body ends with result r after the answer a, changing no field.
FetchReturn(a, r) ==
    /\ reply' = [reply EXCEPT !["fetch"] = a]
    /\ rpc_out' = [rpc_out EXCEPT !["fetch"] = NoRpc]
    /\ ret' = [ret EXCEPT !["fetch"] = r]
    /\ pc' = [pc EXCEPT !["fetch"] = "unlock"]
    /\ UNCHANGED <<center_peer, elected, lock, wake>>
    /\ UNCHANGED <<envVars, clockVars, mapVars, reportVars, calcVars, deviceVars>>

\* `.await?`: the transport error goes to the runner.
FetchTransportError ==
    /\ pc["fetch"] = "rpc"
    /\ FetchReturn([kind |-> "transport_error"], RpcError)

\* let Ok(resp) = ret else { return Ok(1000) }
FetchInnerError ==
    /\ pc["fetch"] = "rpc"
    /\ FetchReturn([kind |-> "inner_error"], Ok(SleepFetchErrorMs))

\* The center server answers None iff the digest sent is the digest it holds.
CenterAnswer(digest) ==
    IF digest = DigestOf(center_data)
    THEN [kind |-> "none"]
    ELSE [kind |-> "some", map |-> center_data, digest |-> DigestOf(center_data)]

\* Mutant: a None answer refreshes the update time.
FetchNoneTouchesTime ==
    /\ pc["fetch"] = "rpc"
    /\ CenterAnswer(rpc_out["fetch"].arg).kind = "none"
    /\ reply' = [reply EXCEPT !["fetch"] = [kind |-> "none"]]
    /\ rpc_out' = [rpc_out EXCEPT !["fetch"] = NoRpc]
    /\ ret' = [ret EXCEPT !["fetch"] = Ok(SleepJobDoneMs)]
    /\ pc' = [pc EXCEPT !["fetch"] = "unlock"]
    /\ global_peer_map_update_time' = now
    /\ UNCHANGED <<global_peer_map, global_peer_map_digest>>
    /\ UNCHANGED <<center_peer, elected, lock, wake>>
    /\ UNCHANGED <<envVars, clockVars, reportVars, calcVars, deviceVars>>

\* let Some(resp) = resp else { return Ok(5000) }
FetchNone ==
    /\ pc["fetch"] = "rpc"
    /\ CenterAnswer(rpc_out["fetch"].arg).kind = "none"
    /\ FetchReturn([kind |-> "none"], Ok(SleepJobDoneMs))

\* Mutant: the update time is stored when the answer arrives, before the map.
FetchSomeStampsFirst ==
    /\ pc["fetch"] = "rpc"
    /\ CenterAnswer(rpc_out["fetch"].arg).kind = "some"
    /\ reply' = [reply EXCEPT !["fetch"] = CenterAnswer(rpc_out["fetch"].arg)]
    /\ rpc_out' = [rpc_out EXCEPT !["fetch"] = NoRpc]
    /\ pc' = [pc EXCEPT !["fetch"] = "w_map"]
    /\ global_peer_map_update_time' = now
    /\ UNCHANGED <<global_peer_map, global_peer_map_digest>>
    /\ UNCHANGED <<center_peer, elected, lock, ret, wake>>
    /\ UNCHANGED <<envVars, clockVars, reportVars, calcVars, deviceVars>>

FetchSome ==
    /\ pc["fetch"] = "rpc"
    /\ CenterAnswer(rpc_out["fetch"].arg).kind = "some"
    /\ reply' = [reply EXCEPT !["fetch"] = CenterAnswer(rpc_out["fetch"].arg)]
    /\ rpc_out' = [rpc_out EXCEPT !["fetch"] = NoRpc]
    /\ pc' = [pc EXCEPT !["fetch"] = "w_map"]
    /\ UNCHANGED <<center_peer, elected, lock, ret, wake>>
    /\ UNCHANGED <<envVars, clockVars, mapVars, reportVars, calcVars, deviceVars>>

\* Mutant: the update time is stored together with the map.
FetchWriteMapAndTime ==
    /\ pc["fetch"] = "w_map"
    /\ global_peer_map' = reply["fetch"].map
    /\ global_peer_map_update_time' = now
    /\ pc' = [pc EXCEPT !["fetch"] = "w_digest"]
    /\ UNCHANGED global_peer_map_digest
    /\ UNCHANGED <<center_peer, elected, lock, ret, wake, rpc_out, reply>>
    /\ UNCHANGED <<envVars, clockVars, reportVars, calcVars, deviceVars>>

\* *global_peer_map.write().unwrap() = resp.global_peer_map
FetchWriteMap ==
    /\ pc["fetch"] = "w_map"
    /\ global_peer_map' = reply["fetch"].map
    /\ pc' = [pc EXCEPT !["fetch"] = "w_digest"]
    /\ UNCHANGED <<global_peer_map_digest, global_peer_map_update_time>>
    /\ UNCHANGED <<center_peer, elected, lock, ret, wake, rpc_out, reply>>
    /\ UNCHANGED <<envVars, clockVars, reportVars, calcVars, deviceVars>>

\* Mutant: the digest of the answer is never stored.
FetchWriteDigestSkipped ==
    /\ pc["fetch"] = "w_digest"
    /\ pc' = [pc EXCEPT !["fetch"] = "w_time"]
    /\ UNCHANGED mapVars
    /\ UNCHANGED <<center_peer, elected, lock, ret, wake, rpc_out, reply>>
    /\ UNCHANGED <<envVars, clockVars, reportVars, calcVars, deviceVars>>

\* Mutant: the default digest is stored in place of the answer's.
FetchWriteDigestDefault ==
    /\ pc["fetch"] = "w_digest"
    /\ global_peer_map_digest' = DefaultDigest
    /\ pc' = [pc EXCEPT !["fetch"] = "w_time"]
    /\ UNCHANGED <<global_peer_map, global_peer_map_update_time>>
    /\ UNCHANGED <<center_peer, elected, lock, ret, wake, rpc_out, reply>>
    /\ UNCHANGED <<envVars, clockVars, reportVars, calcVars, deviceVars>>

\* global_peer_map_digest.store(resp.digest)
FetchWriteDigest ==
    /\ pc["fetch"] = "w_digest"
    /\ global_peer_map_digest' = reply["fetch"].digest
    /\ pc' = [pc EXCEPT !["fetch"] = "w_time"]
    /\ UNCHANGED <<global_peer_map, global_peer_map_update_time>>
    /\ UNCHANGED <<center_peer, elected, lock, ret, wake, rpc_out, reply>>
    /\ UNCHANGED <<envVars, clockVars, reportVars, calcVars, deviceVars>>

\* global_peer_map_update_time.store(Instant::now()); Ok(5000)
FetchWriteTime ==
    /\ pc["fetch"] = "w_time"
    /\ global_peer_map_update_time' = now
    /\ ret' = [ret EXCEPT !["fetch"] = Ok(SleepJobDoneMs)]
    /\ pc' = [pc EXCEPT !["fetch"] = "unlock"]
    /\ UNCHANGED <<global_peer_map, global_peer_map_digest>>
    /\ UNCHANGED <<center_peer, elected, lock, wake, rpc_out, reply>>
    /\ UNCHANGED <<envVars, clockVars, reportVars, calcVars, deviceVars>>

\* ------------------------------------------------------------- report job
\* elapsed().as_secs(): whole seconds since the instant t.
ElapsedSecs(t) == (now - t) \div 1000

\* Mutant: the elapsed time is taken in milliseconds.
SkipReportMillis(list) ==
    /\ center_peer["report"] = last_center_peer
    /\ (now - last_report_time) < ReportIntervalSecs
    /\ last_report_peers = list

\* Mutant: a changed center peer is not looked at.
SkipReportSameCenter(list) ==
    /\ ElapsedSecs(last_report_time) < ReportIntervalSecs
    /\ last_report_peers = list

\* The three-part test that skips the report.
SkipReport(list) ==
    /\ center_peer["report"] = last_center_peer
    /\ ElapsedSecs(last_report_time) < ReportIntervalSecs
    /\ last_report_peers = list

\* list_peers(), the skip test, and otherwise report_peers(my_node_id, peers)
\* sent to the elected peer.
ReportCheck ==
    /\ pc["report"] = "body"
    /\ peer_list' = direct_peers
    /\ IF SkipReport(direct_peers)
       THEN /\ ret' = [ret EXCEPT !["report"] = Ok(SleepJobDoneMs)]
            /\ pc' = [pc EXCEPT !["report"] = "unlock"]
            /\ UNCHANGED <<rpc_out, reports_sent>>
       ELSE /\ rpc_out' = [rpc_out EXCEPT !["report"] =
                    [method |-> "report_peers", to |-> elected["report"],
                     arg |-> <<my_peer_id, direct_peers>>]]
            /\ pc' = [pc EXCEPT !["report"] = "rpc"]
            /\ reports_sent' = IF reports_sent < MaxReports THEN reports_sent + 1 ELSE reports_sent
            /\ UNCHANGED ret
    /\ UNCHANGED <<center_peer, elected, lock, wake, reply>>
    /\ UNCHANGED <<last_report_peers, last_center_peer, last_report_time>>
    /\ UNCHANGED <<envVars, clockVars, mapVars, calcVars, deviceVars>>

\* `.await?`: the transport error goes to the runner.
ReportTransportError ==
    /\ pc["report"] = "rpc"
    /\ reply' = [reply EXCEPT !["report"] = [kind |-> "transport_error"]]
    /\ rpc_out' = [rpc_out EXCEPT !["report"] = NoRpc]
    /\ ret' = [ret EXCEPT !["report"] = RpcError]
    /\ pc' = [pc EXCEPT !["report"] = "unlock"]
    /\ UNCHANGED <<center_peer, elected, lock, wake>>
    /\ UNCHANGED <<envVars, clockVars, mapVars, reportVars, calcVars, deviceVars>>

\* Mutant: an acknowledged report does not store the center peer.
ReportOkKeepsCenter ==
    /\ pc["report"] = "rpc"
    /\ reply' = [reply EXCEPT !["report"] = [kind |-> "ok"]]
    /\ rpc_out' = [rpc_out EXCEPT !["report"] = NoRpc]
    /\ last_report_peers' = peer_list
    /\ last_report_time' = now
    /\ ret' = [ret EXCEPT !["report"] = Ok(SleepJobDoneMs)]
    /\ pc' = [pc EXCEPT !["report"] = "unlock"]
    /\ UNCHANGED <<center_peer, elected, lock, wake, peer_list, reports_sent, last_center_peer>>
    /\ UNCHANGED <<envVars, clockVars, mapVars, calcVars, deviceVars>>

\* ret.is_ok(): the three last_* fields are stored.
ReportOk ==
    /\ pc["report"] = "rpc"
    /\ reply' = [reply EXCEPT !["report"] = [kind |-> "ok"]]
    /\ rpc_out' = [rpc_out EXCEPT !["report"] = NoRpc]
    /\ last_center_peer' = center_peer["report"]
    /\ last_report_peers' = peer_list
    /\ last_report_time' = now
    /\ ret' = [ret EXCEPT !["report"] = Ok(SleepJobDoneMs)]
    /\ pc' = [pc EXCEPT !["report"] = "unlock"]
    /\ UNCHANGED <<center_peer, elected, lock, wake, peer_list, reports_sent>>
    /\ UNCHANGED <<envVars, clockVars, mapVars, calcVars, deviceVars>>

\* Mutant: the server's error result is stored like an acknowledgement.
ReportAppErrorStores ==
    /\ pc["report"] = "rpc"
    /\ reply' = [reply EXCEPT !["report"] = [kind |-> "inner_error"]]
    /\ rpc_out' = [rpc_out EXCEPT !["report"] = NoRpc]
    /\ last_center_peer' = center_peer["report"]
    /\ last_report_peers' = peer_list
    /\ last_report_time' = now
    /\ ret' = [ret EXCEPT !["report"] = Ok(SleepJobDoneMs)]
    /\ pc' = [pc EXCEPT !["report"] = "unlock"]
    /\ UNCHANGED <<center_peer, elected, lock, wake, peer_list, reports_sent>>
    /\ UNCHANGED <<envVars, clockVars, mapVars, calcVars, deviceVars>>

\* The server's error result is logged; nothing is stored.
ReportAppError ==
    /\ pc["report"] = "rpc"
    /\ reply' = [reply EXCEPT !["report"] = [kind |-> "inner_error"]]
    /\ rpc_out' = [rpc_out EXCEPT !["report"] = NoRpc]
    /\ ret' = [ret EXCEPT !["report"] = Ok(SleepJobDoneMs)]
    /\ pc' = [pc EXCEPT !["report"] = "unlock"]
    /\ UNCHANGED <<center_peer, elected, lock, wake>>
    /\ UNCHANGED <<envVars, clockVars, mapVars, reportVars, calcVars, deviceVars>>

\* ------------------------------------------------------- cost calculator
need_update(c) == c.last_update_time < global_peer_map_update_time

\* Mutant: the cost is looked up in the shared map, not in the clone.
calculate_cost_live(c, src, dst) ==
    IF src \in DOMAIN global_peer_map /\ dst \in DOMAIN global_peer_map[src]
    THEN global_peer_map[src][dst]
    ELSE DefaultCost

\* .map.get(&src).and_then(direct_peers.get(&dst)).latency_ms, or 80.
calculate_cost(c, src, dst) ==
    IF src \in DOMAIN c.global_peer_map_clone
       /\ dst \in DOMAIN c.global_peer_map_clone[src]
    THEN c.global_peer_map_clone[src][dst]
    ELSE DefaultCost

\* Mutant: the calculator starts at the instance's update time itself.
get_cost_calculator_current ==
    /\ calc' = [made |-> TRUE,
                global_peer_map_clone |-> EmptyMap,
                last_update_time |-> global_peer_map_update_time]
    /\ calc_phase' = "new"
    /\ UNCHANGED <<envVars, clockVars, runnerVars, mapVars, reportVars, deviceVars>>

get_cost_calculator ==
    /\ calc' = [made |-> TRUE,
                global_peer_map_clone |-> EmptyMap,
                last_update_time |-> global_peer_map_update_time - InitialAgeMs]
    /\ calc_phase' = "new"
    /\ UNCHANGED <<envVars, clockVars, runnerVars, mapVars, reportVars, deviceVars>>

begin_update ==
    /\ calc.made
    /\ calc' = [calc EXCEPT !.global_peer_map_clone = global_peer_map]
    /\ calc_phase' = "begun"
    /\ UNCHANGED <<envVars, clockVars, runnerVars, mapVars, reportVars, deviceVars>>

\* Mutant: the current instant is recorded, not the map's update time.
end_update_now ==
    /\ calc.made
    /\ calc' = [calc EXCEPT !.last_update_time = now]
    /\ calc_phase' = "ended"
    /\ UNCHANGED <<envVars, clockVars, runnerVars, mapVars, reportVars, deviceVars>>

end_update ==
    /\ calc.made
    /\ calc' = [calc EXCEPT !.last_update_time = global_peer_map_update_time]
    /\ calc_phase' = "ended"
    /\ UNCHANGED <<envVars, clockVars, runnerVars, mapVars, reportVars, deviceVars>>

\* =========================================================================
\* The virtual NIC of the node (easytier/src/instance/virtual_nic.rs): the
\* packet-info framer, the VirtualNic facade, and the two halves of the
\* tunnel device behind their BiLock.
\* =========================================================================

\* ------------------------------------------------------ packet-info framer

\* into_pi_field, one body per target_os.
into_pi_field(os, p) ==
    IF os = "windows" THEN Panic
    ELSE IF p.proto = "IPv4" THEN IoOk(IF os = "linux" THEN ETH_P_IP ELSE PF_INET)
    ELSE IF p.proto = "IPv6" THEN IoOk(IF os = "linux" THEN ETH_P_IPV6 ELSE PF_INET6)
    ELSE IoErr

\* The protocol by the first nibble of the buffer.
infer_proto(buf) ==
    LET n == buf[1] \div 16 IN
    IF n = 4 THEN IPv4 ELSE IF n = 6 THEN IPv6 ELSE Other(n)

\* The two bytes write_u16 puts, and what is left of the slice after them:
\* Write for &mut [u8] moves the slice past the bytes written.
NativeEndian(v) == <<v % 256, v \div 256>>
NetworkEndian(v) == <<v \div 256, v % 256>>
Rest(buf, n) == SubSeq(buf, n + 1, Len(buf))

\* fill_packet_info on a 4-byte slice: the flags are written, then the
\* protocol is inferred from the slice as the first write left it, and
\* written. The answer carries the 4 bytes as they are afterwards.
fill_packet_info(os, buf) ==
    LET flags == NativeEndian(0)
        left == Rest(buf, 2)
        field == into_pi_field(os, infer_proto(left))
    IN  IF field.kind = "ok"
        THEN IoOk(flags \o NetworkEndian(field.val) \o Rest(left, 2))
        ELSE field

\* Vec::split_off(at): the bytes from at on.
split_off(inner, at) == SubSeq(inner, at + 1, Len(inner))

into_bytes(os, hpi, p) ==
    IF p.payload_offset < PacketInfoLen THEN Panic
    ELSE IF hpi
    THEN LET inner == split_off(p.inner, p.payload_offset - PacketInfoLen)
             filled == fill_packet_info(os, SubSeq(inner, 1, PacketInfoLen))
         IN  IF filled.kind = "ok"
             THEN IoOk(filled.val \o Rest(inner, PacketInfoLen))
             ELSE filled
    ELSE IoOk(split_off(p.inner, p.payload_offset))

\* Packets handed to the writer: the bytes in front of the payload, of which
\* the last 4 are the reserve, and the payload.
SeqsOf(S, lo, hi) == UNION {[1..n -> S] : n \in lo..hi}
ZCPackets ==
    {[inner |-> h \o p, payload_offset |-> Len(h)] :
        h \in SeqsOf(FrontBytes, PacketInfoLen - 1, MaxOffset),
        p \in SeqsOf(PayloadBytes, 1, MaxPayload)}
payload(p) == split_off(p.inner, p.payload_offset)

\* ------------------------------------------------------ VirtualNic facade
\* A call the kernel device or the configurer received.
Call(name, on, arg, ok) ==
    [call |-> name, ifname |-> on, arg |-> arg, ok |-> ok, guard |-> ns_guard]
\* The configurer method behind each facade operation.
ConfigurerCall(name) ==
    CASE name = "link_up" -> "set_link_status"
      [] name = "add_route" -> "add_ipv4_route"
      [] name = "remove_ip" -> "remove_ip"
      [] name = "add_ip" -> "add_ipv4_ip"

set_queue_num(n) ==
    /\ nic_pc = "idle"
    /\ n # queue_num
    /\ queue_num' = n
    /\ nic_op' = Op("set_queue_num", Some(n))
    /\ nic_ret' = NicOk
    /\ UNCHANGED <<ifname, ns_guard, dev, nic_pc, calls>>
    /\ UNCHANGED <<centerVars, frameVars, tunVars>>

\* create_dev up to net_ns.guard(): a queue count other than 1 is todo!().
create_dev ==
    /\ nic_pc = "idle"
    /\ Len(calls) + 2 <= MaxCalls
    /\ nic_op' = Op("create_dev", None)
    /\ IF queue_num # 1
       THEN /\ nic_pc' = "panicked"
            /\ nic_ret' = NicPanic("todo")
            /\ UNCHANGED ns_guard
       ELSE /\ nic_pc' = "create_as_async"
            /\ nic_ret' = NicNone
            /\ ns_guard' = TRUE
    /\ UNCHANGED <<queue_num, ifname, dev, calls>>
    /\ UNCHANGED <<centerVars, frameVars, tunVars>>

\* { let _g = guard(); create_as_async(&config)? }, then dev.name()?: the
\* guard goes with the block, or with the early return.
create_as_async(res) ==
    /\ nic_pc = "create_as_async"
    /\ calls' = Append(calls, Call("create_as_async", res.dev, None, res.created))
    /\ ns_guard' = FALSE
    /\ IF res.created /\ res.named
       THEN /\ dev' = res.dev
            /\ nic_pc' = "wait_interface_show"
            /\ UNCHANGED nic_ret
       ELSE /\ dev' = None
            /\ nic_pc' = "idle"
            /\ nic_ret' = NicErr(IF res.created THEN "name" ELSE "create_as_async")
    /\ UNCHANGED <<queue_num, ifname, nic_op>>
    /\ UNCHANGED <<centerVars, frameVars, tunVars>>

\* Mutant: the name is stored before the interface has shown.
wait_interface_show_eager(ok) ==
    /\ nic_pc = "wait_interface_show"
    /\ calls' = Append(calls, Call("wait_interface_show", dev, None, ok))
    /\ nic_pc' = "idle"
    /\ ifname' = dev
    /\ IF ok
       THEN /\ nic_ret' = NicOk
            /\ has_packet_info' = (target_os = "macos")
            /\ bilock' = NoLock
            /\ tun_pc' = [h \in Halves |-> "ready"]
            /\ cur_packet' = None
            /\ sink_op' = "none"
            /\ stream_items' = <<>>
            /\ dev_reads' = <<>>
            /\ UNCHANGED dev
       ELSE /\ nic_ret' = NicErr("wait_interface_show")
            /\ dev' = None
            /\ UNCHANGED <<has_packet_info, tunVars>>
    /\ UNCHANGED <<queue_num, ns_guard, nic_op>>
    /\ UNCHANGED <<centerVars, target_os, zc_packet, bytes_out>>

\* ifcfg.wait_interface_show(ifname).await?, then BiLock::new(dev), the two
\* halves with the framer, and self.ifname = Some(ifname).
wait_interface_show(ok) ==
    /\ nic_pc = "wait_interface_show"
    /\ calls' = Append(calls, Call("wait_interface_show", dev, None, ok))
    /\ nic_pc' = "idle"
    /\ IF ok
       THEN /\ nic_ret' = NicOk
            /\ ifname' = dev
            /\ has_packet_info' = (target_os = "macos")
            /\ bilock' = NoLock
            /\ tun_pc' = [h \in Halves |-> "ready"]
            /\ cur_packet' = None
            /\ sink_op' = "none"
            /\ stream_items' = <<>>
            /\ dev_reads' = <<>>
            /\ UNCHANGED dev
       ELSE /\ nic_ret' = NicErr("wait_interface_show")
            /\ dev' = None
            /\ UNCHANGED <<ifname, has_packet_info, tunVars>>
    /\ UNCHANGED <<queue_num, ns_guard, nic_op>>
    /\ UNCHANGED <<centerVars, target_os, zc_packet, bytes_out>>

\* link_up, add_route, remove_ip, add_ip up to the configurer call:
\* let _g = guard(), then self.ifname(), whose unwrap panics on None and
\* unwinds the guard.
Configure(name, arg) ==
    /\ nic_pc = "idle"
    /\ Len(calls) < MaxCalls
    /\ nic_op' = Op(name, arg)
    /\ IF ifname = None
       THEN /\ nic_pc' = "panicked"
            /\ nic_ret' = NicPanic("ifname")
            /\ ns_guard' = FALSE
       ELSE /\ nic_pc' = "configurer"
            /\ nic_ret' = NicNone
            /\ ns_guard' = TRUE
    /\ UNCHANGED <<queue_num, ifname, dev, calls>>
    /\ UNCHANGED <<centerVars, frameVars, tunVars>>

link_up == Configure("link_up", None)
add_route == Configure("add_route", Some(<<Ipv4Addr, 24>>))
remove_ip == \E ip \in {None, Some(Ipv4Addr)} : Configure("remove_ip", ip)
add_ip == Configure("add_ip", Some(<<Ipv4Addr, 24>>))

\* The configurer's answer, `?`, and the end of the function: _g is dropped.
ConfigurerReturn(ok) ==
    /\ nic_pc = "configurer"
    /\ calls' = Append(calls, Call(ConfigurerCall(nic_op.name), ifname, nic_op.arg, ok))
    /\ ns_guard' = FALSE
    /\ nic_pc' = "idle"
    /\ nic_ret' = IF ok THEN NicOk ELSE NicErr("configurer")
    /\ UNCHANGED <<queue_num, ifname, dev, nic_op>>
    /\ UNCHANGED <<centerVars, frameVars, tunVars>>

\* What create_as_async and dev.name() can answer.
CreateResults ==
    {[created |-> TRUE, named |-> TRUE, dev |-> Some(d)] : d \in DevNames}
    \cup {[created |-> TRUE, named |-> FALSE, dev |-> None],
          [created |-> FALSE, named |-> FALSE, dev |-> None]}

NextNic ==
    \/ \E n \in QueueNums : set_queue_num(n)
    \/ create_dev
    \/ \E res \in CreateResults : create_as_async(res)
    \/ \E ok \in BOOLEAN : wait_interface_show(ok)
    \/ link_up
    \/ add_route
    \/ remove_ip
    \/ add_ip
    \/ \E ok \in BOOLEAN : ConfigurerReturn(ok)

InitNic ==
    /\ InitCenterIdle
    /\ target_os \in TargetOs
    /\ NewVirtualNic

SpecNic == InitNic /\ [][NextNic]_vars

\* A VirtualNic whose create_dev has succeeded on target os: the device tun0
\* behind a free BiLock, the stream with no packet buffer.
BoundNic(os) ==
    /\ target_os = os
    /\ has_packet_info = (os = "macos")
    /\ queue_num = 1
    /\ ifname = Some("tun0")
    /\ ns_guard = FALSE
    /\ dev = Some("tun0")
    /\ nic_pc = "idle"
    /\ nic_op = Op("create_dev", None)
    /\ nic_ret = NicOk
    /\ calls = <<[call |-> "create_as_async", ifname |-> Some("tun0"), arg |-> None,
                  ok |-> TRUE, guard |-> TRUE],
                 [call |-> "wait_interface_show", ifname |-> Some("tun0"), arg |-> None,
                  ok |-> TRUE, guard |-> FALSE]>>
    /\ bilock = NoLock
    /\ tun_pc = [h \in Halves |-> "ready"]
    /\ cur_packet = None
    /\ sink_op = "none"
    /\ stream_items = <<>>
    /\ dev_reads = <<>>

\* ---------------------------------------------------------------- framer
\* A converter of either kind on any target, with a packet to write.
InitFrame ==
    /\ InitCenterIdle
    /\ \E os \in TargetOs : BoundNic(os)
    /\ zc_packet \in ZCPackets
    /\ bytes_out = NoBytes

\* FramedWriter hands the packet to the converter.
IntoBytes ==
    /\ bytes_out = NoBytes
    /\ bytes_out' = into_bytes(target_os, has_packet_info, zc_packet)
    /\ UNCHANGED <<target_os, zc_packet, has_packet_info>>
    /\ UNCHANGED <<centerVars, nicVars, tunVars>>

NextFrame == IntoBytes

SpecFrame == InitFrame /\ [][NextFrame]_vars

\* ------------------------------------------------- the tunnel's two halves
\* ready!(l.poll_lock(cx)): the half gets the guard if the device is free,
\* and otherwise leaves its waker and returns Pending.
poll_lock(h) ==
    /\ tun_pc[h] \in {"ready", "waiting", "pending"}
    /\ IF bilock = NoLock
       THEN /\ bilock' = h
            /\ tun_pc' = [tun_pc EXCEPT ![h] = "locked"]
       ELSE /\ tun_pc' = [tun_pc EXCEPT ![h] = "waiting"]
            /\ UNCHANGED bilock

\* TunStream::poll_next up to the read: the lock, then a fresh packet buffer
\* if none is kept from an earlier poll.
poll_next ==
    /\ poll_lock("stream")
    /\ cur_packet' = IF bilock = NoLock /\ cur_packet = None THEN Some(<<>>) ELSE cur_packet
    /\ UNCHANGED <<sink_op, stream_items, dev_reads>>
    /\ UNCHANGED <<centerVars, frameVars, nicVars>>

\* Mutant: a pending read returns with the guard still held.
poll_read_buf_holding(res) ==
    /\ tun_pc["stream"] = "locked"
    /\ (res.kind = "ok" /\ res.val > 0) => Len(stream_items) < MaxPackets
    /\ bilock' = IF res.kind = "pending" THEN bilock ELSE NoLock
    /\ IF res.kind = "pending"
       THEN /\ tun_pc' = [tun_pc EXCEPT !["stream"] = "pending"]
            /\ UNCHANGED <<cur_packet, stream_items, dev_reads>>
       ELSE IF res.kind = "ok" /\ res.val > 0
       THEN /\ tun_pc' = [tun_pc EXCEPT !["stream"] = "ready"]
            /\ stream_items' = Append(stream_items, Append(cur_packet.val, res.val))
            /\ cur_packet' = None
            /\ dev_reads' = Append(dev_reads, res)
       ELSE /\ tun_pc' = [tun_pc EXCEPT !["stream"] = "done"]
            /\ dev_reads' = Append(dev_reads, res)
            /\ UNCHANGED <<cur_packet, stream_items>>
    /\ UNCHANGED sink_op
    /\ UNCHANGED <<centerVars, frameVars, nicVars>>

\* Mutant: the packet is yielded as a copy and the buffer stays in the slot.
poll_read_buf_keeping(res) ==
    /\ tun_pc["stream"] = "locked"
    /\ (res.kind = "ok" /\ res.val > 0) => Len(stream_items) < MaxPackets
    /\ bilock' = NoLock
    /\ IF res.kind = "pending"
       THEN /\ tun_pc' = [tun_pc EXCEPT !["stream"] = "pending"]
            /\ UNCHANGED <<cur_packet, stream_items, dev_reads>>
       ELSE IF res.kind = "ok" /\ res.val > 0
       THEN /\ tun_pc' = [tun_pc EXCEPT !["stream"] = "ready"]
            /\ stream_items' = Append(stream_items, Append(cur_packet.val, res.val))
            /\ cur_packet' = Some(Append(cur_packet.val, res.val))
            /\ dev_reads' = Append(dev_reads, res)
       ELSE /\ tun_pc' = [tun_pc EXCEPT !["stream"] = "done"]
            /\ dev_reads' = Append(dev_reads, res)
            /\ UNCHANGED <<cur_packet, stream_items>>
    /\ UNCHANGED sink_op
    /\ UNCHANGED <<centerVars, frameVars, nicVars>>

\* ready!(poll_read_buf(..)) and the match: Pending keeps the buffer, n > 0
\* yields the packet and empties the slot, 0 and an error end the stream; the
\* guard g is dropped as poll_next returns.
poll_read_buf(res) ==
    /\ tun_pc["stream"] = "locked"
    /\ (res.kind = "ok" /\ res.val > 0) => Len(stream_items) < MaxPackets
    /\ bilock' = NoLock
    /\ IF res.kind = "pending"
       THEN /\ tun_pc' = [tun_pc EXCEPT !["stream"] = "pending"]
            /\ UNCHANGED <<cur_packet, stream_items, dev_reads>>
       ELSE IF res.kind = "ok" /\ res.val > 0
       THEN /\ tun_pc' = [tun_pc EXCEPT !["stream"] = "ready"]
            /\ stream_items' = Append(stream_items, Append(cur_packet.val, res.val))
            /\ cur_packet' = None
            /\ dev_reads' = Append(dev_reads, res)
       ELSE /\ tun_pc' = [tun_pc EXCEPT !["stream"] = "done"]
            /\ dev_reads' = Append(dev_reads, res)
            /\ UNCHANGED <<cur_packet, stream_items>>
    /\ UNCHANGED sink_op
    /\ UNCHANGED <<centerVars, frameVars, nicVars>>

\* TunAsyncWrite::poll_write, poll_flush, poll_shutdown, poll_write_vectored
\* up to the device call: a new operation, or the one that returned Pending.
poll_sink(op) ==
    /\ IF tun_pc["sink"] = "ready" THEN sink_op' = op ELSE sink_op' = sink_op /\ op = sink_op
    /\ poll_lock("sink")
    /\ UNCHANGED <<cur_packet, stream_items, dev_reads>>
    /\ UNCHANGED <<centerVars, frameVars, nicVars>>

\* g.as_pin_mut().poll_*(cx, ..) and the return, which drops the guard.
device_poll(res) ==
    /\ tun_pc["sink"] = "locked"
    /\ bilock' = NoLock
    /\ tun_pc' = [tun_pc EXCEPT !["sink"] = IF res.kind = "pending" THEN "pending" ELSE "ready"]
    /\ UNCHANGED <<sink_op, cur_packet, stream_items, dev_reads>>
    /\ UNCHANGED <<centerVars, frameVars, nicVars>>

\* What the device answers to a read and to a sink operation.
Pending == [kind |-> "pending"]
ReadResults == {Pending, IoErr} \cup {IoOk(n) : n \in 0..MaxRead}
SinkResults == {Pending, IoErr, IoOk(1)}

InitTun ==
    /\ InitCenterIdle
    /\ \E os \in TargetOs : BoundNic(os)
    /\ zc_packet = NoPacket
    /\ bytes_out = NoBytes

NextTun ==
    \/ poll_next
    \/ \E res \in ReadResults : poll_read_buf(res)
    \/ \E op \in SinkOps : poll_sink(op)
    \/ \E res \in SinkResults : device_poll(res)

SpecTun == InitTun /\ [][NextTun]_vars

\* ------------------------------------------------- environment, continued
PeersChange ==
    /\ \E s \in SUBSET (PeerIds \ {my_peer_id}) : direct_peers' = s /\ s # direct_peers
    /\ UNCHANGED <<my_peer_id, routes, center_data>>
    /\ UNCHANGED <<clockVars, runnerVars, mapVars, reportVars, calcVars, deviceVars>>

CenterDataChange ==
    /\ \E m \in KnownMaps : center_data' = m /\ m # center_data
    /\ UNCHANGED <<my_peer_id, routes, direct_peers>>
    /\ UNCHANGED <<clockVars, runnerVars, mapVars, reportVars, calcVars, deviceVars>>

\* ---------------------------------------------------------- specifications
RunnerStep(j) ==
    \/ Elect(j)
    \/ AcquireLock(j)
    \/ RunnerAfter(j)
    \/ Wake(j, TRUE)

FetchStep ==
    \/ FetchSend
    \/ FetchTransportError
    \/ FetchInnerError
    \/ FetchNone
    \/ FetchSome
    \/ FetchWriteMap
    \/ FetchWriteDigest
    \/ FetchWriteTime

ReportStep ==
    \/ ReportCheck
    \/ ReportTransportError
    \/ ReportOk
    \/ ReportAppError

CalcStep ==
    \/ get_cost_calculator
    \/ begin_update
    \/ end_update

Next ==
    \/ Tick
    \/ RouteChange
    \/ \E j \in Jobs : RunnerStep(j)
    \/ FetchStep
    \/ ReportStep

Spec == Init /\ [][Next]_vars

NextFetch ==
    \/ Tick
    \/ RouteChange
    \/ CenterDataChange
    \/ RunnerStep("fetch")
    \/ FetchStep
    \/ CalcStep

SpecFetch == Init /\ [][NextFetch]_vars

NextReport ==
    \/ Tick
    \/ RouteChange
    \/ PeersChange
    \/ RunnerStep("report")
    \/ ReportStep

SpecReport == Init /\ [][NextReport]_vars

NextSelect == \E j \in Jobs : Elect(j)

SpecSelect == InitSelect /\ [][NextSelect]_vars

\* A connected mesh with a stable topology: the routes, the neighbours and the
\* center server's map stay as they start. Sleeps end (the clock is left out);
\* tokio's Mutex is FIFO, so a waiting job gets the lock (strong fairness of
\* AcquireLock); RPCs fail any number of times but are answered by the server
\* again and again (strong fairness of FetchAnswered).
InitLive ==
    /\ my_peer_id = 7
    /\ routes \in RouteTables \ {<<>>}
    /\ direct_peers \in {{3}, {3, 9}}
    /\ center_data \in KnownMaps
    /\ InitJobs
    /\ InitDevice

LiveRunnerStep(j) ==
    \/ Elect(j)
    \/ AcquireLock(j)
    \/ RunnerAfter(j)
    \/ Wake(j, FALSE)

NextLive ==
    \/ \E j \in Jobs : LiveRunnerStep(j)
    \/ FetchStep
    \/ ReportStep

FetchAnswered == FetchNone \/ FetchSome

LiveSpec ==
    /\ InitLive
    /\ [][NextLive]_vars
    /\ \A j \in Jobs : WF_vars(Elect(j)) /\ WF_vars(RunnerAfter(j)) /\ WF_vars(Wake(j, FALSE))
    /\ \A j \in Jobs : SF_vars(AcquireLock(j))
    /\ WF_vars(FetchStep)
    /\ WF_vars(ReportStep)
    /\ SF_vars(FetchAnswered)

\* As LiveSpec, but with nothing said of how the RPCs end: each is answered
\* or fails within its deadline (weak fairness of the job bodies), and all of
\* them may fail.
RetrySpec ==
    /\ InitLive
    /\ [][NextLive]_vars
    /\ \A j \in Jobs : WF_vars(Elect(j)) /\ WF_vars(RunnerAfter(j)) /\ WF_vars(Wake(j, FALSE))
    /\ \A j \in Jobs : SF_vars(AcquireLock(j))
    /\ WF_vars(FetchStep)
    /\ WF_vars(ReportStep)

\* A freshly built node in a settled mesh: a route exists, and neither the
\* routes nor the neighbours change; every report_peers is acknowledged.
InitStable ==
    /\ my_peer_id = 7
    /\ routes \in RouteTables \ {<<>>}
    /\ direct_peers \in SUBSET (PeerIds \ {my_peer_id})
    /\ center_data \in KnownMaps
    /\ InitJobs
    /\ InitDevice

NextStable ==
    \/ Tick
    \/ RunnerStep("report")
    \/ ReportCheck
    \/ ReportOk

SpecStable == InitStable /\ [][NextStable]_vars

\* ------------------------------------------------------------------ claims
MinOf(S) == CHOOSE x \in S : \A y \in S : x <= y
RouteIds(peers) == {peers[i] : i \in 1..Len(peers)}

\* C1: select_center_peer returns None on an empty route list and otherwise
\* the smallest id among the local id and the ids of the routes; a job that
\* has elected holds exactly that id, and sleeps only when no route exists.
C1_SelectIsMin ==
    /\ select_center_peer(my_peer_id, routes) =
            IF routes = <<>> THEN None
            ELSE Some(MinOf({my_peer_id} \cup RouteIds(routes)))
    /\ \A j \in Jobs :
        /\ pc[j] = "lock" =>
                /\ routes # <<>>
                /\ elected[j] = MinOf({my_peer_id} \cup RouteIds(routes))
        /\ pc[j] = "sleep" => routes = <<>>

\* Node 7 with routes to 3 and 9 has elected 3.
C1_Witness ==
    /\ my_peer_id = 7
    /\ RouteIds(routes) = {3, 9}
    /\ pc["fetch"] = "lock"
    /\ elected["fetch"] = 3

\* C2: a report iteration whose stored center peer is last_center_peer, whose
\* last report is less than 60 s old and whose direct-peer set is
\* last_report_peers issues no RPC and returns a 5000 ms sleep.
C2_UnchangedSkips ==
    [][(/\ pc["report"] = "body"
        /\ pc'["report"] # "body"
        /\ center_peer["report"] = last_center_peer
        /\ now - last_report_time < ReportIntervalSecs * 1000
        /\ direct_peers = last_report_peers)
       => (/\ rpc_out'["report"] = NoRpc
           /\ pc'["report"] = "unlock"
           /\ ret'["report"] = Ok(5000))]_vars

\* An iteration after an acknowledged report has ended without an RPC.
C2_Witness ==
    /\ pc["report"] = "unlock"
    /\ reply["report"] = NoReply
    /\ ret["report"] = Ok(5000)
    /\ last_center_peer = center_peer["report"]
    /\ last_center_peer # DefaultPeerId
    /\ now > last_report_time

\* C3: a report iteration whose elected center peer is not the center peer of
\* the last acknowledged report sends report_peers to the elected peer,
\* whatever the age of the last report and the neighbour set.
C3_CenterChangeReports ==
    [][(/\ pc["report"] = "body"
        /\ pc'["report"] # "body"
        /\ elected["report"] # last_center_peer)
       => (/\ pc'["report"] = "rpc"
           /\ rpc_out'["report"] # NoRpc
           /\ rpc_out'["report"].method = "report_peers"
           /\ rpc_out'["report"].to = elected["report"])]_vars

\* A report is in flight to a new center peer although the last report is
\* recent and the neighbour set is the one last reported.
C3_Witness ==
    /\ pc["report"] = "rpc"
    /\ last_center_peer # DefaultPeerId
    /\ rpc_out["report"].to # last_center_peer
    /\ now - last_report_time < ReportIntervalSecs * 1000
    /\ peer_list = last_report_peers

\* The job is between lock.lock().await and drop(_g).
InCritical(j) == pc[j] \in {"body", "rpc", "w_map", "w_digest", "w_time", "unlock"}

\* C4: at most one periodic job is between taking and dropping the lock, it
\* is the holder of the lock, and at most one RPC of the node is in flight.
C4_JobsNeverOverlap ==
    /\ \A j, k \in Jobs : InCritical(j) /\ InCritical(k) => j = k
    /\ \A j \in Jobs : InCritical(j) => lock = j
    /\ \A j \in Jobs : rpc_out[j] # NoRpc => InCritical(j)
    /\ Cardinality({j \in Jobs : rpc_out[j] # NoRpc}) <= 1

\* The fetch RPC is in flight while the report job waits for the lock.
C4_Witness ==
    /\ pc["fetch"] = "rpc"
    /\ rpc_out["fetch"] # NoRpc
    /\ pc["report"] = "lock"

\* C5 as claimed: whenever one of global_map, digest and last_map_update_time
\* changes, all three take the values of the response in that same step.
C5_UpdateIsAtomic ==
    [][(\/ global_peer_map' # global_peer_map
        \/ global_peer_map_digest' # global_peer_map_digest
        \/ global_peer_map_update_time' # global_peer_map_update_time)
       => (/\ global_peer_map' = reply["fetch"].map
           /\ global_peer_map_digest' = reply["fetch"].digest
           /\ global_peer_map_update_time' = now)]_vars

\* C5 as amended: the three fields are written one at a time, the map first,
\* then the digest, then the update time, each from the one response; the
\* digest only changes once the map is the response's, the update time only
\* once the map and the digest are.
C5_WritesInOrder ==
    [][/\ global_peer_map' # global_peer_map =>
            /\ pc["fetch"] = "w_map"
            /\ global_peer_map' = reply["fetch"].map
            /\ global_peer_map_digest' = global_peer_map_digest
            /\ global_peer_map_update_time' = global_peer_map_update_time
       /\ global_peer_map_digest' # global_peer_map_digest =>
            /\ pc["fetch"] = "w_digest"
            /\ global_peer_map = reply["fetch"].map
            /\ global_peer_map_digest' = reply["fetch"].digest
            /\ global_peer_map' = global_peer_map
            /\ global_peer_map_update_time' = global_peer_map_update_time
       /\ global_peer_map_update_time' # global_peer_map_update_time =>
            /\ pc["fetch"] = "w_time"
            /\ global_peer_map = reply["fetch"].map
            /\ global_peer_map_digest = reply["fetch"].digest
            /\ global_peer_map_update_time' = now
            /\ global_peer_map' = global_peer_map
            /\ global_peer_map_digest' = global_peer_map_digest]_vars

\* The map and the digest are the response's while the update time is still
\* the earlier one.
C5_Witness ==
    /\ pc["fetch"] = "w_time"
    /\ global_peer_map = reply["fetch"].map
    /\ global_peer_map_digest = reply["fetch"].digest
    /\ global_peer_map_update_time < now

\* C6: with a stable topology, fair scheduling and RPCs that are answered in
\* the end, the node's digest becomes the center server's digest and stays it.
C6_DigestConverges == <>[](global_peer_map_digest = DigestOf(center_data))

\* The node sleeps after an update that gave it the center server's digest.
C6_Witness ==
    /\ pc["fetch"] = "sleep"
    /\ global_peer_map_digest = DigestOf(center_data)
    /\ global_peer_map_digest # DefaultDigest
    /\ global_peer_map = center_data

\* C7: outside the three writes of an update, the stored map and digest are
\* the initial pair or the pair of one response of the center server; and
\* when the server answers None the stored map is the server's map.
C7_DigestMatchesMap ==
    /\ [](~Applying =>
            \/ /\ global_peer_map = EmptyMap
               /\ global_peer_map_digest = DefaultDigest
            \/ \E m \in KnownMaps :
                /\ global_peer_map = m
                /\ global_peer_map_digest = DigestOf(m))
    /\ [][(pc["fetch"] = "rpc" /\ reply'["fetch"].kind = "none")
           => (/\ rpc_out["fetch"].arg = global_peer_map_digest
               /\ global_peer_map = center_data)]_vars

\* The server has answered None to a node that holds a map it fetched before.
C7_Witness ==
    /\ pc["fetch"] = "unlock"
    /\ reply["fetch"].kind = "none"
    /\ global_peer_map # EmptyMap
    /\ global_peer_map = center_data

\* C8: a fetch that ends in a transport error, an inner error or None changes
\* none of the map, the digest and the update time; the body returns 1000 ms
\* on an inner error, 5000 ms on None, and the transport error itself; the
\* three fields change only while a Some answer is applied.
C8_FailedFetchChangesNothing ==
    [][/\ (pc["fetch"] = "rpc" /\ pc'["fetch"] = "unlock") =>
            /\ UNCHANGED mapVars
            /\ reply'["fetch"].kind \in {"transport_error", "inner_error", "none"}
            /\ reply'["fetch"].kind = "transport_error" => ret'["fetch"] = RpcError
            /\ reply'["fetch"].kind = "inner_error" => ret'["fetch"] = Ok(1000)
            /\ reply'["fetch"].kind = "none" => ret'["fetch"] = Ok(5000)
       /\ mapVars' # mapVars => reply["fetch"].kind = "some"]_vars

\* An inner error has ended an iteration of a node that holds a fetched map.
C8_Witness ==
    /\ pc["fetch"] = "unlock"
    /\ reply["fetch"].kind = "inner_error"
    /\ ret["fetch"] = Ok(1000)
    /\ global_peer_map # EmptyMap
    /\ global_peer_map_update_time > 0

\* C9: the time a calculator captured is never later than the instance's map
\* update time, and need_update() is false exactly when the two are equal.
C9_NeedUpdateIffBehind ==
    calc.made =>
        /\ calc.last_update_time <= global_peer_map_update_time
        /\ (need_update(calc) = FALSE) <=>
                (calc.last_update_time = global_peer_map_update_time)

\* A calculator that ended an update after the map was updated is current.
C9_Witness ==
    /\ calc.made
    /\ calc_phase = "ended"
    /\ global_peer_map_update_time > 0
    /\ ~need_update(calc)

\* C10: need_update() is true for a calculator that has not ended an update;
\* it is false after begin_update() and end_update(), and then turns true
\* only by the fetch job's store of a new update time.
C10_NeedUpdateToggles ==
    /\ [](calc_phase = "new" => need_update(calc))
    /\ [][(calc_phase = "begun" /\ calc_phase' = "ended") => ~need_update(calc)']_vars
    /\ [][(/\ calc_phase = "ended"
            /\ calc_phase' = "ended"
            /\ ~need_update(calc)
            /\ need_update(calc)')
           => (/\ pc["fetch"] = "w_time"
               /\ pc'["fetch"] = "unlock"
               /\ global_peer_map_update_time' = now
               /\ global_peer_map_update_time' > global_peer_map_update_time)]_vars

\* The calculator holds the current map after an update pair and needs none.
C10_Witness ==
    /\ calc.made
    /\ calc_phase = "ended"
    /\ ~need_update(calc)
    /\ calc.global_peer_map_clone = global_peer_map
    /\ global_peer_map # EmptyMap

\* The latency m records for dst among the direct peers of src, if any.
LatencyIn(m, src, dst) ==
    IF src \in DOMAIN m
    THEN IF dst \in DOMAIN m[src] THEN Some(m[src][dst]) ELSE None
    ELSE None
AllIds == PeerIds \cup {DefaultPeerId}
\* The step is a begin_update() that took effect.
BeginsUpdate == calc_phase' = "begun" /\ (calc_phase # "begun" \/ calc' # calc)
\* The step hands out a new calculator.
MakesCalculator == calc_phase' = "new" /\ (calc_phase # "new" \/ calc' # calc)

\* C11: after begin_update() calculate_cost(src, dst) is the latency the
\* shared map recorded for dst among src's direct peers at that call, and 80
\* when it recorded none; a fresh calculator answers 80; and no step other
\* than a begin_update() (or a new calculator) changes any answer, whatever
\* the fetch job writes to the shared map.
C11_CostFromSnapshot ==
    /\ [][BeginsUpdate =>
            \A s, d \in AllIds :
                calculate_cost(calc, s, d)' =
                    IF LatencyIn(global_peer_map, s, d).some
                    THEN LatencyIn(global_peer_map, s, d).val
                    ELSE 80]_vars
    /\ [][(calc.made /\ ~BeginsUpdate /\ ~MakesCalculator) =>
            \A s, d \in AllIds :
                calculate_cost(calc, s, d)' = calculate_cost(calc, s, d)]_vars
    /\ [](calc_phase = "new" => \A s, d \in AllIds : calculate_cost(calc, s, d) = 80)

\* The calculator still answers 20 for 7 -> 9 from its snapshot although the
\* shared map has since lost peer 9.
C11_Witness ==
    /\ calc.made
    /\ calc_phase \in {"begun", "ended"}
    /\ calculate_cost(calc, 7, 9) = 20
    /\ calculate_cost(calc, 9, 3) = 80
    /\ global_peer_map = MapAB
    /\ ~LatencyIn(global_peer_map, 7, 9).some

\* C12: in a settled mesh whose report_peers calls are acknowledged, a fresh
\* report job sends its report in its first iteration, and sends no second
\* one before the clock reaches 60 s.
C12_OneReportInFirstMinute ==
    /\ pc["report"] \in {"rpc", "unlock", "sleep"} => reports_sent >= 1
    /\ now < ReportIntervalSecs * 1000 => reports_sent <= 1

\* A later iteration inside the first minute has ended without an RPC, the
\* one report being the first iteration's.
C12_Witness ==
    /\ 0 < now
    /\ now < ReportIntervalSecs * 1000
    /\ pc["report"] = "unlock"
    /\ reply["report"] = NoReply
    /\ reports_sent = 1
    /\ last_report_time = 0

\* The protocol value of the platform for an IP version nibble.
PlatformProto(os, nibble) ==
    IF os = "linux"
    THEN (IF nibble = 4 THEN ETH_P_IP ELSE ETH_P_IPV6)
    ELSE (IF nibble = 4 THEN PF_INET ELSE PF_INET6)
\* The packet converted is an IPv4 or IPv6 packet behind a reserve of 4 bytes.
FramedIpPacket ==
    /\ bytes_out # NoBytes
    /\ zc_packet.payload_offset >= PacketInfoLen
    /\ payload(zc_packet)[1] \div 16 \in {4, 6}

\* C13: with has_packet_info, into_bytes of an IPv4 or IPv6 packet succeeds,
\* and its output starts with 00 00 and the platform's protocol value of the
\* payload's first nibble in network order, whatever the reserve held.
C13_PrefixFromPayload ==
    (FramedIpPacket /\ has_packet_info) =>
        /\ bytes_out.kind = "ok"
        /\ SubSeq(bytes_out.val, 1, 2) = <<0, 0>>
        /\ SubSeq(bytes_out.val, 3, 4) =
                NetworkEndian(PlatformProto(target_os, payload(zc_packet)[1] \div 16))

\* On macOS an IPv4 packet (0x45) behind a zeroed reserve has been refused.
C13_Witness ==
    /\ target_os = "macos"
    /\ has_packet_info
    /\ zc_packet.inner = <<0, 0, 0, 0, 69>>
    /\ zc_packet.payload_offset = 4
    /\ bytes_out = IoErr

\* C14: for an IPv4 or IPv6 packet with payload_offset >= 4, with and without
\* has_packet_info, into_bytes succeeds and its output, less the 4-byte
\* prefix when has_packet_info, is inner[payload_offset..].
C14_RoundTrip ==
    FramedIpPacket =>
        /\ bytes_out.kind = "ok"
        /\ (IF has_packet_info THEN Rest(bytes_out.val, PacketInfoLen) ELSE bytes_out.val)
                = split_off(zc_packet.inner, zc_packet.payload_offset)

\* An IPv6 packet whose reserve ends in 0f 00 has been refused, while the
\* same packet behind 45 00 would pass.
C14_Witness ==
    /\ has_packet_info
    /\ zc_packet.payload_offset = 5
    /\ zc_packet.inner = <<69, 0, 0, 0, 0, 96, 15>>
    /\ bytes_out = IoErr

\* The names of the calls received so far, in order.
CallNames == [i \in 1..Len(calls) |-> calls[i].call]

\* C15: every call to the kernel device and to the configurer is made with
\* the namespace guard held, the guard is not held once the operation has
\* returned or panicked, and so the calls of the bring-up sequence are each
\* made inside the guard.
C15_CallsInsideGuard ==
    /\ \A i \in 1..Len(calls) : calls[i].guard
    /\ nic_pc \in {"create_as_async", "wait_interface_show", "configurer"} => ns_guard
    /\ nic_pc \in {"idle", "panicked"} => ~ns_guard

\* The bring-up sequence has run without error: the configurer saw wait_show,
\* link_up, remove_ip(None), add_ipv4_ip in that order, and wait_show alone
\* came with no guard held.
C15_Witness ==
    /\ nic_pc = "idle"
    /\ ~ns_guard
    /\ CallNames = <<"create_as_async", "wait_interface_show", "set_link_status",
                     "remove_ip", "add_ipv4_ip">>
    /\ \A i \in 1..Len(calls) : calls[i].ok /\ calls[i].ifname = ifname
    /\ calls[4].arg = None
    /\ {i \in 1..Len(calls) : ~calls[i].guard} = {2}

\* Some create_dev has had both its steps succeed.
CreateSucceeded ==
    \E i \in 1..Len(calls) : calls[i].call = "wait_interface_show" /\ calls[i].ok
\* The step starts link_up, add_ip, remove_ip or add_route.
StartsConfigure ==
    /\ nic_pc = "idle"
    /\ nic_pc' # "idle"
    /\ nic_op'.name \in {"link_up", "add_ip", "remove_ip", "add_route"}

\* C17: the interface name is unset until a create_dev has had its device
\* creation and its wait_interface_show both succeed; it is set by the step
\* in which that create_dev returns Ok, to the name of the device created;
\* a create_dev that fails at either step leaves it as it was; link_up,
\* add_ip, remove_ip and add_route panic while it is unset, and otherwise
\* call the configurer on the name of the device created.
C17_NameSetOnSuccess ==
    /\ [](~CreateSucceeded => ifname = None)
    /\ [][ifname' # ifname =>
            /\ nic_pc = "wait_interface_show"
            /\ nic_op.name = "create_dev"
            /\ nic_pc' = "idle"
            /\ nic_ret' = NicOk
            /\ dev # None
            /\ ifname' = dev
            /\ calls'[Len(calls')].call = "wait_interface_show"
            /\ calls'[Len(calls')].ok
            /\ calls'[Len(calls') - 1].call = "create_as_async"
            /\ calls'[Len(calls') - 1].ok
            /\ calls'[Len(calls') - 1].ifname = dev]_vars
    /\ [][(nic_op.name = "create_dev" /\ nic_pc # "idle" /\ nic_pc' = "idle") =>
            IF nic_ret' = NicOk
            THEN ifname' = dev /\ dev # None /\ nic_pc = "wait_interface_show"
            ELSE nic_ret'.kind = "err" /\ ifname' = ifname]_vars
    /\ [][StartsConfigure =>
            IF ifname = None
            THEN nic_pc' = "panicked" /\ nic_ret'.kind = "panic" /\ calls' = calls
            ELSE nic_pc' = "configurer"]_vars
    /\ [][(nic_pc = "configurer" /\ nic_pc' # "configurer") =>
            /\ ifname # None
            /\ calls'[Len(calls')].ifname = ifname]_vars

\* The device was made but the interface did not show: create_dev returned
\* the error, the name is unset, and the link_up that followed panicked.
C17_Witness ==
    /\ CallNames = <<"create_as_async", "wait_interface_show">>
    /\ calls[1].ok
    /\ ~calls[2].ok
    /\ ifname = None
    /\ nic_op.name = "link_up"
    /\ nic_pc = "panicked"

\* C18: create_dev on a VirtualNic whose queue count is not 1 returns an
\* error value to its caller, makes no call to the kernel and leaves the
\* interface name as it is.
C18_QueueNumIsError ==
    [][(nic_pc = "idle" /\ queue_num # 1 /\ nic_op'.name = "create_dev") =>
            /\ nic_pc' = "idle"
            /\ nic_ret'.kind = "err"
            /\ calls' = calls
            /\ ifname' = ifname]_vars

\* create_dev after set_queue_num(2) has panicked at todo!().
C18_Witness ==
    /\ queue_num = 2
    /\ nic_op.name = "create_dev"
    /\ nic_pc = "panicked"
    /\ nic_ret = NicPanic("todo")
    /\ calls = <<>>
    /\ ifname = None

\* The half is inside a poll, between its poll_lock and its return.
InPoll(h) == tun_pc[h] = "locked"

\* C16: the stream and the sink are never inside the device at once; a half
\* holds the BiLock exactly while it is inside one poll, so not while its
\* read or write is pending; and a poll of one half that starts while the
\* other is not inside a poll gets the device at once.
C16_HalvesNeverOverlap ==
    /\ [](~(InPoll("stream") /\ InPoll("sink")))
    /\ [](\A h \in Halves : InPoll(h) <=> bilock = h)
    /\ [](tun_pc["stream"] = "pending" => bilock # "stream")
    /\ [][\A h \in Halves :
            (/\ tun_pc'[h] # tun_pc[h]
             /\ ~InPoll(h)
             /\ \A o \in Halves \ {h} : ~InPoll(o))
            => (InPoll(h)' /\ bilock' = h)]_vars

\* The stream's read is pending with its packet buffer kept, and the sink is
\* inside a write on the device.
C16_Witness ==
    /\ tun_pc["stream"] = "pending"
    /\ cur_packet # None
    /\ InPoll("sink")
    /\ bilock = "sink"
    /\ sink_op = "poll_write"

\* C19: whatever the body returns, the runner drops the lock and goes on:
\* after a transport error it sleeps 3 s, after a result the returned
\* sleep_ms, and not at all for 0; a sleep ends in a new election; a sleeping
\* job does not hold the lock; and with RPCs that return within their
\* deadline and a leader to elect, every job runs its body again and again,
\* the fetch job sending its request each time, also after an error.
C19_JobsKeepRunning ==
    /\ [](/\ SleepAfter(RpcError) = Some(3000)
          /\ SleepAfter(Ok(0)) = None
          /\ \A ms \in {1, 1000, 5000} : SleepAfter(Ok(ms)) = Some(ms))
    /\ [][\A j \in Jobs :
            (pc[j] = "unlock" /\ pc'[j] # "unlock") =>
                /\ lock = j
                /\ lock' = NoLock
                /\ IF ~ret[j].ok
                   THEN pc'[j] = "sleep" /\ wake'[j] = now + 3000
                   ELSE IF ret[j].ms > 0
                   THEN pc'[j] = "sleep" /\ wake'[j] = now + ret[j].ms
                   ELSE pc'[j] = "elect"]_vars
    /\ [][\A j \in Jobs : (pc[j] = "sleep" /\ pc'[j] # "sleep") => pc'[j] = "elect"]_vars
    /\ [](\A j \in Jobs : pc[j] \in {"sleep", "elect"} => lock # j)
    /\ \A j \in Jobs : []<>(pc[j] = "body")
    /\ \A j \in Jobs : (pc[j] = "unlock" /\ ~ret[j].ok) ~> (pc[j] = "body")
    /\ []<>(rpc_out["fetch"] # NoRpc)

\* The fetch job sleeps its 3 s after a transport error while the report job
\* runs its body under the lock.
C19_Witness ==
    /\ pc["fetch"] = "sleep"
    /\ wake["fetch"] = now + 3000
    /\ lock = "report"
    /\ pc["report"] = "rpc"

\* The job is between the store of the center peer and the end of the body.
Iterating(j) == pc[j] \in {"lock", "body", "rpc", "w_map", "w_digest", "w_time", "unlock"}

\* C20: the runner's elected peer and the job's center_peer slot change only
\* in an election that finds a peer, both to that peer; through the rest of
\* the iteration the slot holds it and every request is addressed to it; an
\* election that finds no peer changes neither the slot nor the lock nor the
\* requests in flight, and sleeps 1 s; the sleep ends in a new election.
C20_RpcGoesToElected ==
    /\ [](\A j \in Jobs :
            /\ Iterating(j) => (center_peer[j] = elected[j] /\ elected[j] \in PeerIds)
            /\ rpc_out[j] # NoRpc =>
                    (pc[j] = "rpc" /\ rpc_out[j].to = elected[j]
                     /\ rpc_out[j].to = center_peer[j]))
    /\ [][\A j \in Jobs :
            (elected'[j] # elected[j] \/ center_peer'[j] # center_peer[j]) =>
                /\ pc[j] = "elect"
                /\ pc'[j] = "lock"
                /\ select_center_peer(my_peer_id, routes) = Some(elected'[j])
                /\ center_peer'[j] = elected'[j]]_vars
    /\ [][\A j \in Jobs :
            (pc[j] = "elect" /\ pc'[j] # "elect") =>
                IF select_center_peer(my_peer_id, routes) = None
                THEN /\ pc'[j] = "sleep"
                     /\ wake'[j] = now + 1000
                     /\ center_peer' = center_peer
                     /\ lock' = lock
                     /\ rpc_out' = rpc_out
                ELSE /\ pc'[j] = "lock"
                     /\ select_center_peer(my_peer_id, routes) = Some(elected'[j])]_vars
    /\ [][\A j \in Jobs : (pc[j] = "sleep" /\ wake[j] = now + 1000 /\ pc'[j] # "sleep")
            => pc'[j] = "elect"]_vars

\* The fetch request is in flight to node 7 itself, elected when the
\* iteration began, although an election now would choose 3; the report job
\* sleeps after an election that found no peer, its slot still unset.
C20_Witness ==
    /\ pc["fetch"] = "rpc"
    /\ rpc_out["fetch"].to = 7
    /\ center_peer["fetch"] = 7
    /\ select_center_peer(my_peer_id, routes) = Some(3)
    /\ pc["report"] = "sleep"
    /\ center_peer["report"] = DefaultPeerId

\* The device's answer was a read of at least one byte.
NonEmptyRead(r) == r.kind = "ok" /\ r.val > 0
\* The stream's poll_next has returned Ready(None).
StreamEnded == tun_pc["stream"] = "done"

\* C21: the packets yielded are, in order, the non-empty reads the device
\* answered, one packet for each and each holding that read alone; the
\* stream has ended exactly when the last answer was a 0-byte read or an
\* error, every answer before it being a non-empty read; a buffer is put in
\* the slot only when the slot is empty, a new and empty one; a pending read
\* and the poll after it leave the slot as it is; every yield empties it.
C21_OnePacketPerRead ==
    /\ [](LET got == SelectSeq(dev_reads, NonEmptyRead) IN
            /\ Len(stream_items) = Len(got)
            /\ \A i \in 1..Len(got) : stream_items[i] = <<got[i].val>>)
    /\ [](StreamEnded <=> (dev_reads # <<>> /\ ~NonEmptyRead(dev_reads[Len(dev_reads)])))
    /\ [](\A i \in 1..(Len(dev_reads) - 1) : NonEmptyRead(dev_reads[i]))
    /\ [][stream_items' # stream_items =>
            /\ cur_packet # None
            /\ cur_packet' = None
            /\ Len(stream_items') = Len(stream_items) + 1
            /\ SubSeq(stream_items', 1, Len(stream_items)) = stream_items]_vars
    /\ [][(cur_packet' # cur_packet /\ cur_packet' # None) =>
            /\ cur_packet = None
            /\ cur_packet' = Some(<<>>)
            /\ InPoll("stream")']_vars
    /\ [][(tun_pc'["stream"] = "pending" \/ tun_pc["stream"] = "pending") =>
            (cur_packet # None => cur_packet' = cur_packet)]_vars
    /\ [](tun_pc["stream"] = "pending" => cur_packet # None)

\* Two packets were yielded in the order read, then an error ended the
\* stream with nothing yielded for it.
C21_Witness ==
    /\ dev_reads = <<IoOk(2), IoOk(1), IoErr>>
    /\ stream_items = << <<2>>, <<1>> >>
    /\ StreamEnded

\* The last report_peers call of the report job ended in a transport error or
\* in the server's error result.
ReportFailed == reply["report"].kind \in {"transport_error", "inner_error"}

\* last_center_peer, last_report_peers and last_report_time.
SuppressionState == <<last_center_peer, last_report_peers, last_report_time>>

\* C22: the three last_* fields are written only by a report_peers call that
\* ends in Ok, which sets them to the iteration's center peer, its neighbour
\* set and the current time; a call that ends in a transport error or in the
\* server's error result leaves all three as they were and the skip test
\* false for the iteration's center peer and neighbour set; for a given center
\* peer and neighbour set the skip test turns true only when a call ends in
\* Ok; and an iteration whose skip test is false for the neighbour set of the
\* iteration before sends report_peers for it again.
C22_FailedReportKeepsState ==
    /\ [][SuppressionState' # SuppressionState
            => (/\ pc["report"] = "rpc"
                /\ reply'["report"].kind = "ok"
                /\ last_center_peer' = center_peer["report"]
                /\ last_report_peers' = peer_list
                /\ last_report_time' = now)]_vars
    /\ [][(pc["report"] = "rpc" /\ pc'["report"] # "rpc")
            => \/ reply'["report"].kind = "ok" /\ SuppressionState' = <<center_peer["report"], peer_list, now>>
               \/ ReportFailed' /\ SuppressionState' = SuppressionState /\ ~SkipReport(peer_list)']_vars
    /\ [][(/\ ~SkipReport(peer_list)
           /\ SkipReport(peer_list)'
           /\ peer_list' = peer_list
           /\ center_peer'["report"] = center_peer["report"])
            => (pc["report"] = "rpc" /\ reply'["report"].kind = "ok")]_vars
    /\ [][(/\ pc["report"] = "body"
           /\ pc'["report"] # "body"
           /\ ~SkipReport(peer_list)
           /\ direct_peers = peer_list)
            => (/\ pc'["report"] = "rpc"
                /\ rpc_out'["report"] # NoRpc
                /\ rpc_out'["report"].method = "report_peers"
                /\ rpc_out'["report"].to = elected["report"]
                /\ rpc_out'["report"].arg = <<my_peer_id, peer_list>>)]_vars

\* After an acknowledged report, a second report, with another neighbour set,
\* has failed; the stored state is still the one of the acknowledged report.
C22_Witness ==
    /\ pc["report"] = "unlock"
    /\ ReportFailed
    /\ reports_sent = 2
    /\ last_center_peer = center_peer["report"]
    /\ last_center_peer # DefaultPeerId
    /\ last_report_peers # peer_list
    /\ now > last_report_time
    /\ now - last_report_time < ReportIntervalSecs * 1000

\* C23: when end_update() follows begin_update() and need_update() is false
\* afterwards, with the fetch job not in the middle of its three writes, the
\* calculator's snapshot is the shared global map.
C23_NeverSettlesStale ==
    [][(/\ calc_phase = "begun"
        /\ calc_phase' = "ended"
        /\ ~need_update(calc)'
        /\ ~Applying')
       => calc'.global_peer_map_clone = global_peer_map']_vars

\* The fetch job wrote a new map and its update time after begin_update() had
\* cloned the earlier one; end_update() recorded the new time, need_update()
\* is false and the snapshot is the earlier map.
C23_Witness ==
    /\ calc.made
    /\ calc_phase = "ended"
    /\ ~need_update(calc)
    /\ ~Applying
    /\ calc.global_peer_map_clone # EmptyMap
    /\ calc.global_peer_map_clone # global_peer_map
    /\ calc.last_update_time = global_peer_map_update_time
    /\ global_peer_map_update_time = now

\* C24: global_peer_map_update_time never decreases and is never ahead of the
\* clock; it is written only by the fetch job, as the last of its three
\* writes, when the shared map and the digest are already those of the
\* response being applied; and the shared map is replaced only by the map of
\* a response whose update time is not yet written. So the map read after a
\* given update time is the map of the response that wrote that time or of a
\* later response.
C24_TimeWrittenLast ==
    /\ [](global_peer_map_update_time <= now)
    /\ [][global_peer_map_update_time' >= global_peer_map_update_time]_vars
    /\ [][global_peer_map_update_time' # global_peer_map_update_time
            => (/\ pc["fetch"] = "w_time"
                /\ pc'["fetch"] = "unlock"
                /\ reply["fetch"].kind = "some"
                /\ global_peer_map = reply["fetch"].map
                /\ global_peer_map_digest = reply["fetch"].digest
                /\ global_peer_map_update_time' = now
                /\ UNCHANGED <<global_peer_map, global_peer_map_digest>>)]_vars
    /\ [][global_peer_map' # global_peer_map
            => (/\ pc["fetch"] = "w_map"
                /\ pc'["fetch"] = "w_digest"
                /\ global_peer_map' = reply["fetch"].map
                /\ UNCHANGED global_peer_map_update_time)]_vars
    /\ [](pc["fetch"] = "unlock" /\ reply["fetch"].kind = "some"
            => (/\ global_peer_map = reply["fetch"].map
                /\ global_peer_map_digest = reply["fetch"].digest))

\* A second response has been applied: the update time went from that of the
\* first response to the current instant, and the map and the digest are the
\* second response's.
C24_Witness ==
    /\ pc["fetch"] = "unlock"
    /\ reply["fetch"].kind = "some"
    /\ ticks = 2
    /\ global_peer_map = reply["fetch"].map
    /\ global_peer_map # EmptyMap
    /\ global_peer_map_digest = reply["fetch"].digest
    /\ global_peer_map_update_time = now
    /\ calc.made
    /\ 0 < calc.last_update_time
    /\ calc.last_update_time < global_peer_map_update_time

====
